---- MODULE Spec2Model ----
(***************************************************************************)
(* Model of the Sapphillon front-end hooks useWorkflowGeneration and       *)
(* useWorkflowRun, of the workflow-progress notifier and of the plugin     *)
(* list fetch of PluginsPanel and PluginsPage.                             *)
(*                                                                         *)
(* One hook (or the pure function parseWorkflowSteps) is mounted per       *)
(* behaviour: `unit` names it.  React state is modelled by its current     *)
(* value (all queued updates applied); what a memoised callback reads is   *)
(* the value captured at the last render (seenStreaming, seenRunning,      *)
(* seenLatest), refreshed by Render.  Every await is a separate step.      *)
(* Strings that the code takes apart (prompts, plugin function ids) are    *)
(* sequences of one-character strings.                                     *)
(***************************************************************************)
EXTENDS Integers, Sequences, FiniteSets, TLC

VARIABLES unit, bridge, streaming, running, events, latest, runRes, abortRef,
          aborted, seenStreaming, seenRunning, seenLatest, tasks, sent,
          calls, lastCall, received, pluginFunctionIds, parsed,
          plugins, loading, error

vars == <<unit, bridge, streaming, running, events, latest, runRes, abortRef,
          aborted, seenStreaming, seenRunning, seenLatest, tasks, sent,
          calls, lastCall, received, pluginFunctionIds, parsed,
          plugins, loading, error>>

----------------------------------------------------------------------------
(* Bounds *)

\* inputs of one behaviour of useWorkflowGeneration: the calls of start,
\* stop, clearEvents and runLatest and the messages its streams deliver
MaxCalls == 3
\* calls of runById, runByDefinition and clearEvents in one behaviour of
\* useWorkflowRun
MaxRunCalls == 2
\* calls among them that get past their guard and reach an await
MaxTasks == 2
\* characters of a plugin function id given to parseWorkflowSteps
MaxIdLen == 3
\* plugin function ids given to parseWorkflowSteps
MaxIds == 2

----------------------------------------------------------------------------
(* Values *)

Null == "null"
Undefined == "undefined"

\* sequences over S of length at most n
SeqUpTo(S, n) == UNION {[1..k -> S] : k \in 0..n}

RECURSIVE TrimStart(_)
TrimStart(s) == IF s # <<>> /\ Head(s) = " " THEN TrimStart(Tail(s)) ELSE s

RECURSIVE TrimEnd(_)
TrimEnd(s) ==
  IF s # <<>> /\ s[Len(s)] = " " THEN TrimEnd(SubSeq(s, 1, Len(s) - 1)) ELSE s

\* String.prototype.trim
Trim(s) == TrimEnd(TrimStart(s))

\* prompts given to start(): empty, blank, and with text
Prompts == {<<>>, <<" ">>, <<"p">>, <<" ", "p">>}

\* GenerateWorkflowResponse messages; "m0" carries no workflowDefinition
Messages == {"m0", "m1"}
HasWorkflowDefinition(m) == m = "m1"

\* RunWorkflowResponse
Responses == {"r1"}

\* plugin function ids of the workflows the run hook is given
FidPlain == <<"f">>
FidDotted == <<"a", ".", "f">>

NoWorkflow ==
  [defined |-> FALSE, id |-> "", displayName |-> "", workflowCode |-> <<>>]

\* Workflow values: without code, and with two codes (the last one is the
\* latest)
Workflows ==
  { [defined |-> TRUE, id |-> "w1", displayName |-> "", workflowCode |-> <<>>],
    [defined |-> TRUE, id |-> "w2", displayName |-> "n",
     workflowCode |-> << [id |-> "c1", pluginFunctionIds |-> <<>>],
                         [id |-> "c2",
                          pluginFunctionIds |-> <<FidPlain, FidDotted>>] >>] }

\* what updateWorkflow resolves with: no workflow, a workflow without id,
\* a saved workflow without code, a saved workflow with code
SaveResponses ==
  { [workflow |-> NoWorkflow],
    [workflow |-> [defined |-> TRUE, id |-> "", displayName |-> "",
                   workflowCode |-> <<>>]],
    [workflow |-> [defined |-> TRUE, id |-> "w1", displayName |-> "",
                   workflowCode |-> <<>>]],
    [workflow |-> [defined |-> TRUE, id |-> "w3", displayName |-> "n",
                   workflowCode |->
                     << [id |-> "c3", pluginFunctionIds |-> <<FidPlain>>] >>]] }

\* what runById is called with: an id, and no workflow or any workflow
WorkflowIds == {"w2"}
RunByIdWorkflows == {NoWorkflow} \cup Workflows
\* what runByDefinition is called with: the workflows that have code
DefinitionWorkflows == {w \in Workflows : Len(w.workflowCode) > 0}

Units == {"generation", "run", "steps", "plugins"}
\* window.OSAutomotor: absent, or present with sendWorkflowProgress
\* resolving or rejecting
Bridges == {"absent", "resolves", "rejects"}

----------------------------------------------------------------------------
(* lib/workflow-progress.ts *)

RECURSIVE Split(_, _, _)
\* String.prototype.split("."): the segments of s between the dots;
\* acc holds the finished segments, cur the segment being read
Split(s, acc, cur) ==
  IF s = <<>> THEN Append(acc, cur)
  ELSE IF Head(s) = "." THEN Split(Tail(s), Append(acc, cur), <<>>)
  ELSE Split(Tail(s), acc, Append(cur, Head(s)))

\* functionId.split(".").pop() || functionId
FunctionName_FirstSegment(functionId) ==
  LET first == Split(functionId, <<>>, <<>>)[1]
  IN  IF first = <<>> THEN functionId ELSE first

FunctionName(functionId) ==
  LET parts == Split(functionId, <<>>, <<>>)
      last == parts[Len(parts)]
  IN  IF last = <<>> THEN functionId ELSE last

\* step ids are `step-${index}`, index counted from 0
parseWorkflowSteps(ids) ==
  [i \in 1..Len(ids) |->
     [id |-> <<"step", i - 1>>,
      functionId |-> ids[i],
      functionName |-> FunctionName(ids[i]),
      status |-> "pending",
      startedAt |-> Undefined,
      completedAt |-> Undefined]]

\* sendProgressMessage's guard on window.OSAutomotor?.sendWorkflowProgress:
\* "sent" (the promise's rejection is caught and ignored), "skipped", or
\* "threw" (an exception reaches the caller)
SendOutcome_NoGuard == IF bridge = "absent" THEN "threw" ELSE "sent"

SendOutcome == IF bridge # "absent" THEN "sent" ELSE "skipped"

\* sendProgressMessage: s is the list of messages handed to the host so far
sendProgressMessage(s, message) ==
  [sent |-> IF SendOutcome = "sent" THEN Append(s, message) ELSE s,
   threw |-> SendOutcome = "threw"]

notifyWorkflowStart(s, run, workflowId, workflowName, steps) ==
  sendProgressMessage(s,
    [type |-> "workflow-progress-start", run |-> run,
     workflowId |-> workflowId, workflowName |-> workflowName,
     steps |-> steps, currentStepIndex |-> 0, status |-> "running"])

notifyWorkflowComplete_AsUpdate(s, run, workflowId, steps) ==
  sendProgressMessage(s,
    [type |-> "workflow-progress-update", run |-> run,
     workflowId |-> workflowId, workflowName |-> Undefined,
     steps |-> steps, currentStepIndex |-> Len(steps) - 1,
     status |-> "running"])

notifyWorkflowComplete(s, run, workflowId, steps) ==
  sendProgressMessage(s,
    [type |-> "workflow-progress-complete", run |-> run,
     workflowId |-> workflowId, workflowName |-> Undefined,
     steps |-> steps, currentStepIndex |-> Len(steps) - 1,
     status |-> "completed"])

notifyWorkflowError(s, run, workflowId, steps, currentStepIndex) ==
  sendProgressMessage(s,
    [type |-> "workflow-progress-error", run |-> run,
     workflowId |-> workflowId, workflowName |-> Undefined,
     steps |-> steps, currentStepIndex |-> currentStepIndex,
     status |-> "error"])

----------------------------------------------------------------------------
(* State shared by the hooks *)

\* one call of start, runLatest, runById, runByDefinition or fetchPlugins
\* that got past its guard.  pc is the await it is suspended at ("stream",
\* "save", "run", "listPlugins") or "finished".  saved, saveResponse, listed,
\* appended, rpcs, outcome, setRes, resetFlag and threw record what the call
\* did and what it was answered and are read by no action.
NewTask(op) ==
  [op |-> op, pc |-> "finished", nmsg |-> 0,
   sourceId |-> "", workflowId |-> "", workflowCodeId |-> "",
   workflowName |-> "", steps |-> <<>>,
   saved |-> FALSE, saveResponse |-> [workflow |-> NoWorkflow],
   appended |-> <<>>, rpcs |-> <<>>, outcome |-> "pending",
   setRes |-> FALSE, resetFlag |-> FALSE, threw |-> FALSE,
   listed |-> <<>>]

Event(kind, payload) == [kind |-> kind, payload |-> payload]

Kinds(evs) == [i \in 1..Len(evs) |-> evs[i].kind]

\* append: setEvents((prev) => [...prev, e]) for each event of evs
append(prev, evs) == prev \o evs

InFlight(t) == tasks[t].pc # "finished"

\* a task appends evs: the events state and the task's own record
Emit(t, evs, task) ==
  /\ events' = append(events, evs)
  /\ tasks' = [tasks EXCEPT ![t] = [task EXCEPT !.appended = @ \o Kinds(evs)]]

TaskIds == 1..Len(tasks)

\* the mounted hook takes another input
CanCall == calls < (IF unit = "run" THEN MaxRunCalls ELSE MaxCalls)

\* a call may start another task
CanAccept == Len(tasks) < MaxTasks

----------------------------------------------------------------------------
(* useWorkflowGeneration *)

\* the try/finally of start ends: setStreaming(false), abortRef.current = null
StartFinally_KeepStreamingOnAbort(t, outcome) ==
  /\ streaming' = (IF outcome = "aborted" THEN streaming ELSE FALSE)
  /\ abortRef' = 0

StartFinally(t, outcome) ==
  /\ streaming' = FALSE
  /\ abortRef' = 0

\* start(prompt), up to its first await
StartGuard(prompt) == Trim(prompt) = <<>> \/ seenStreaming

StartLatest_Keep == latest

StartLatest == Null

Start(prompt) ==
  /\ unit = "generation"
  /\ CanCall
  /\ calls' = calls + 1
  /\ lastCall' = "start"
  /\ StartGuard(prompt) \/ CanAccept
  /\ IF StartGuard(prompt)
       THEN UNCHANGED <<streaming, events, latest, runRes, abortRef, tasks,
                        received>>
       ELSE /\ events' = <<>>
            /\ runRes' = Null
            /\ latest' = StartLatest
            /\ streaming' = TRUE
            /\ abortRef' = Len(tasks) + 1
            /\ tasks' = Append(tasks,
                 [NewTask("start") EXCEPT !.pc = "stream",
                                          !.rpcs = << <<"generateWorkflow", "">> >>])
            /\ received' = <<>>
  /\ UNCHANGED <<unit, bridge, running, aborted, seenStreaming, seenRunning,
                 seenLatest, sent, pluginFunctionIds, parsed,
                 plugins, loading, error>>

\* the stream yields msg: setLatest(msg); append message
StreamMessage(t, msg) ==
  /\ unit = "generation"
  /\ t \in TaskIds
  /\ tasks[t].op = "start" /\ tasks[t].pc = "stream"
  /\ t \notin aborted
  /\ CanCall
  /\ calls' = calls + 1
  /\ lastCall' = "streamMessage"
  /\ latest' = msg
  /\ LET evs == <<Event("message", <<"msg", msg>>)>>
     IN  /\ events' = append(events, evs)
         /\ received' = Append(received, msg)
         /\ tasks' = [tasks EXCEPT ![t].nmsg = @ + 1,
                                   ![t].appended = @ \o Kinds(evs)]
  /\ UNCHANGED <<unit, bridge, streaming, running, runRes, abortRef, aborted,
                 seenStreaming, seenRunning, seenLatest, sent,
                 pluginFunctionIds, parsed,
                 plugins, loading, error>>

\* the catch clause of start: an AbortError returns, any other error is
\* appended
StartCatch_SwallowsAll(name) == <<>>

StartCatch(name) ==
  IF name = "AbortError" THEN <<>> ELSE <<Event("error", <<name>>)>>

\* the stream ends: append done, then finally
StreamDone(t) ==
  /\ unit = "generation"
  /\ t \in TaskIds
  /\ tasks[t].op = "start" /\ tasks[t].pc = "stream"
  /\ t \notin aborted
  /\ StartFinally(t, "ended")
  /\ Emit(t, <<Event("done", <<"generate">>)>>,
          [tasks[t] EXCEPT !.pc = "finished", !.outcome = "ended",
                           !.resetFlag = ~streaming'])
  /\ UNCHANGED <<unit, bridge, running, latest, runRes, aborted,
                 seenStreaming, seenRunning, seenLatest, sent, calls,
                 lastCall, received, pluginFunctionIds, parsed,
                 plugins, loading, error>>

\* the stream throws an error that is not an AbortError
StreamError(t) ==
  /\ unit = "generation"
  /\ t \in TaskIds
  /\ tasks[t].op = "start" /\ tasks[t].pc = "stream"
  /\ t \notin aborted
  /\ StartFinally(t, "failed")
  /\ Emit(t, StartCatch("Error"),
          [tasks[t] EXCEPT !.pc = "finished", !.outcome = "failed",
                           !.resetFlag = ~streaming'])
  /\ UNCHANGED <<unit, bridge, running, latest, runRes, aborted,
                 seenStreaming, seenRunning, seenLatest, sent, calls,
                 lastCall, received, pluginFunctionIds, parsed,
                 plugins, loading, error>>

\* the aborted stream throws AbortError
StreamAbort(t) ==
  /\ unit = "generation"
  /\ t \in TaskIds
  /\ tasks[t].op = "start" /\ tasks[t].pc = "stream"
  /\ t \in aborted
  /\ StartFinally(t, "aborted")
  /\ Emit(t, StartCatch("AbortError"),
          [tasks[t] EXCEPT !.pc = "finished", !.outcome = "aborted",
                           !.resetFlag = ~streaming'])
  /\ UNCHANGED <<unit, bridge, running, latest, runRes, aborted,
                 seenStreaming, seenRunning, seenLatest, sent, calls,
                 lastCall, received, pluginFunctionIds, parsed,
                 plugins, loading, error>>

\* stop(): abortRef.current?.abort()
StopAborts == IF abortRef # 0 THEN {abortRef} ELSE {}

Stop ==
  /\ unit = "generation"
  /\ CanCall
  /\ calls' = calls + 1
  /\ lastCall' = "stop"
  /\ aborted' = aborted \cup StopAborts
  /\ UNCHANGED <<unit, bridge, streaming, running, events, latest, runRes,
                 abortRef, seenStreaming, seenRunning, seenLatest, tasks,
                 sent, received, pluginFunctionIds, parsed,
                 plugins, loading, error>>

\* clearEvents(): setEvents([]) (the same code in both hooks)
ClearEvents_AlsoStops ==
  /\ events' = <<>>
  /\ aborted' = aborted \cup TaskIds
  /\ UNCHANGED <<streaming, running, latest, runRes, abortRef, tasks>>

ClearEffect ==
  /\ events' = <<>>
  /\ UNCHANGED <<streaming, running, latest, runRes, abortRef, aborted, tasks>>

ClearEvents ==
  /\ unit \in {"generation", "run"}
  /\ CanCall
  /\ calls' = calls + 1
  /\ lastCall' = "clearEvents"
  /\ ClearEffect
  /\ UNCHANGED <<unit, bridge, seenStreaming, seenRunning, seenLatest, sent,
                 received, pluginFunctionIds, parsed,
                 plugins, loading, error>>

\* the hook's component renders: the callbacks are re-created with the
\* current state in their closures
Render ==
  /\ unit \in {"generation", "run"}
  /\ <<seenStreaming, seenRunning, seenLatest>> # <<streaming, running, latest>>
  /\ seenStreaming' = streaming
  /\ seenRunning' = running
  /\ seenLatest' = latest
  /\ UNCHANGED <<unit, bridge, streaming, running, events, latest, runRes,
                 abortRef, aborted, tasks, sent, calls, lastCall, received,
                 pluginFunctionIds, parsed,
                 plugins, loading, error>>

\* runLatest(), up to its first await (updateWorkflow)
RunLatest ==
  /\ unit = "generation"
  /\ CanCall
  /\ calls' = calls + 1
  /\ lastCall' = "runLatest"
  /\ ~HasWorkflowDefinition(seenLatest) \/ CanAccept
  /\ IF ~HasWorkflowDefinition(seenLatest)
       THEN UNCHANGED <<events, tasks>>
       ELSE LET t == Len(tasks) + 1
                evs == <<Event("message", <<"save", "start">>)>>
            IN  /\ events' = append(events, evs)
                /\ tasks' = Append(tasks,
                     [NewTask("runLatest") EXCEPT
                        !.pc = "save",
                        !.sourceId = seenLatest,
                        !.rpcs = << <<"updateWorkflow", seenLatest>> >>,
                        !.appended = Kinds(evs)])
  /\ UNCHANGED <<unit, bridge, streaming, running, latest, runRes, abortRef,
                 aborted, seenStreaming, seenRunning, seenLatest, sent,
                 received, pluginFunctionIds, parsed,
                 plugins, loading, error>>

\* task t with the answer of updateWorkflow recorded
Answered(t, response) ==
  [tasks[t] EXCEPT !.saved = TRUE, !.saveResponse = response]

\* saveResponse.workflow?.id
SavedId_Unchecked(response) ==
  IF response.workflow.defined /\ response.workflow.id # ""
    THEN response.workflow.id ELSE "w1"

SavedId(response) ==
  IF response.workflow.defined THEN response.workflow.id ELSE ""

\* saveResponse.workflow.workflowCode?.[0]?.id || ""
SavedCodeId(response) ==
  IF Len(response.workflow.workflowCode) > 0
    THEN response.workflow.workflowCode[1].id ELSE ""

\* runLatest: updateWorkflow resolves
LatestSaveResolve(t, response) ==
  /\ unit = "generation"
  /\ t \in TaskIds
  /\ tasks[t].op = "runLatest" /\ tasks[t].pc = "save"
  /\ IF SavedId(response) = ""
       THEN Emit(t, <<Event("error", <<"noId">>)>>,
                 [Answered(t, response) EXCEPT !.pc = "finished",
                                               !.outcome = "noId"])
       ELSE Emit(t, <<Event("message", <<"save", "done", SavedId(response)>>),
                      Event("message", <<"run", "start">>)>>,
                 [Answered(t, response) EXCEPT
                    !.pc = "run",
                    !.workflowId = SavedId(response),
                    !.workflowCodeId = SavedCodeId(response),
                    !.rpcs = Append(@, <<"runWorkflow", SavedId(response)>>)])
  /\ UNCHANGED <<unit, bridge, streaming, running, latest, runRes, abortRef,
                 aborted, seenStreaming, seenRunning, seenLatest, sent,
                 calls, lastCall, received, pluginFunctionIds, parsed,
          plugins, loading, error>>

\* runLatest: updateWorkflow rejects
LatestSaveReject(t) ==
  /\ unit = "generation"
  /\ t \in TaskIds
  /\ tasks[t].op = "runLatest" /\ tasks[t].pc = "save"
  /\ Emit(t, <<Event("error", <<"e1">>)>>,
          [tasks[t] EXCEPT !.pc = "finished", !.outcome = "saveRejected"])
  /\ UNCHANGED <<unit, bridge, streaming, running, latest, runRes, abortRef,
                 aborted, seenStreaming, seenRunning, seenLatest, sent,
                 calls, lastCall, received, pluginFunctionIds, parsed,
          plugins, loading, error>>

\* runLatest: runWorkflow resolves
LatestRunResolve(t, res) ==
  /\ unit = "generation"
  /\ t \in TaskIds
  /\ tasks[t].op = "runLatest" /\ tasks[t].pc = "run"
  /\ runRes' = res
  /\ Emit(t, <<Event("message", <<"res", res>>), Event("done", <<"run">>)>>,
          [tasks[t] EXCEPT !.pc = "finished", !.outcome = "resolved",
                           !.setRes = TRUE])
  /\ UNCHANGED <<unit, bridge, streaming, running, latest, abortRef, aborted,
                 seenStreaming, seenRunning, seenLatest, sent, calls,
                 lastCall, received, pluginFunctionIds, parsed,
                 plugins, loading, error>>

\* runLatest: runWorkflow rejects
LatestRunReject(t) ==
  /\ unit = "generation"
  /\ t \in TaskIds
  /\ tasks[t].op = "runLatest" /\ tasks[t].pc = "run"
  /\ Emit(t, <<Event("error", <<"e1">>)>>,
          [tasks[t] EXCEPT !.pc = "finished", !.outcome = "rejected"])
  /\ UNCHANGED <<unit, bridge, streaming, running, latest, runRes, abortRef,
                 aborted, seenStreaming, seenRunning, seenLatest, sent,
                 calls, lastCall, received, pluginFunctionIds, parsed,
          plugins, loading, error>>

----------------------------------------------------------------------------
(* useWorkflowRun *)

getPluginFunctionIds(workflow) ==
  IF ~workflow.defined \/ Len(workflow.workflowCode) = 0 THEN <<>>
  ELSE workflow.workflowCode[Len(workflow.workflowCode)].pluginFunctionIds

\* workflow?.displayName || "Workflow"
WorkflowName(workflow) ==
  IF workflow.defined /\ workflow.displayName # ""
    THEN workflow.displayName ELSE "Workflow"

MarkStarted_AllRunning(steps) ==
  [i \in 1..Len(steps) |->
     [steps[i] EXCEPT !.status = "running", !.startedAt = "now"]]

\* steps.map: the first step running and started, the others pending
MarkStarted(steps) ==
  [i \in 1..Len(steps) |->
     [steps[i] EXCEPT !.status = IF i = 1 THEN "running" ELSE "pending",
                      !.startedAt = IF i = 1 THEN "now" ELSE Undefined]]

\* steps.map: every step completed
MarkCompleted(steps) ==
  [i \in 1..Len(steps) |->
     [steps[i] EXCEPT !.status = "completed", !.completedAt = "now"]]

\* steps.findIndex((s) => s.status === "running"), counted from 0
FindRunning(steps) ==
  LET found == {i \in 1..Len(steps) : steps[i].status = "running"}
  IN  IF found = {} THEN -1
      ELSE (CHOOSE i \in found : \A j \in found : i <= j) - 1

NotSent(s) == [sent |-> s, threw |-> FALSE]

\* the catch block's notification of runById and runByDefinition
NotifyCaught(s, t, workflowId, steps) ==
  LET currentIndex == FindRunning(steps)
      marked == IF currentIndex >= 0
                  THEN [steps EXCEPT ![currentIndex + 1].status = "error"]
                  ELSE steps
  IN  IF Len(steps) > 0
        THEN notifyWorkflowError(s, t, workflowId, marked,
                                 IF currentIndex >= 0 THEN currentIndex ELSE 0)
        ELSE NotSent(s)

\* the guard of runById and runByDefinition: if (running) return
RunGuard == seenRunning

\* finally { setRunning(false) }
RunFinally == running' = FALSE

\* runById(workflowId, workflowCodeId, workflow), up to its first await
RunById(workflowId, workflowCodeId, workflow) ==
  /\ unit = "run"
  /\ CanCall
  /\ calls' = calls + 1
  /\ lastCall' = "runById"
  /\ RunGuard \/ CanAccept
  /\ IF RunGuard
       THEN UNCHANGED <<running, events, runRes, tasks, sent>>
       ELSE LET t == Len(tasks) + 1
                parsedSteps == parseWorkflowSteps(getPluginFunctionIds(workflow))
                steps == IF Len(parsedSteps) > 0 THEN MarkStarted(parsedSteps)
                         ELSE parsedSteps
                n == IF Len(parsedSteps) > 0
                       THEN notifyWorkflowStart(sent, t, workflowId,
                                                WorkflowName(workflow), steps)
                       ELSE NotSent(sent)
                evs == IF n.threw THEN <<>>
                       ELSE <<Event("message", <<"run", "start">>)>>
                task == [NewTask("runById") EXCEPT
                           !.workflowId = workflowId,
                           !.workflowCodeId =
                              IF workflowCodeId = Undefined THEN ""
                              ELSE workflowCodeId,
                           !.workflowName = WorkflowName(workflow),
                           !.steps = steps,
                           !.appended = Kinds(evs)]
            IN  /\ runRes' = Null
                /\ running' = TRUE
                /\ sent' = n.sent
                /\ events' = append(<<>>, evs)
                /\ tasks' = Append(tasks,
                     IF n.threw
                       THEN [task EXCEPT !.outcome = "threw", !.threw = TRUE]
                       ELSE [task EXCEPT
                               !.pc = "run",
                               !.rpcs = << <<"runWorkflow", workflowId>> >>])
  /\ UNCHANGED <<unit, bridge, streaming, latest, abortRef, aborted,
                 seenStreaming, seenRunning, seenLatest, received,
                 pluginFunctionIds, parsed,
                 plugins, loading, error>>

\* the rest of a run after runWorkflow resolved with res: setRunRes, the
\* message and done events, the completion notice, and the catch block if
\* the notice throws; `source` is the id the catch block reports
AfterRunResolved(t, res, source) ==
  LET task == tasks[t]
      done == MarkCompleted(task.steps)
      n == IF Len(task.steps) > 0
             THEN notifyWorkflowComplete(sent, t, task.workflowId, done)
             ELSE NotSent(sent)
      steps == IF Len(task.steps) > 0 THEN done ELSE task.steps
      c == IF n.threw THEN NotifyCaught(n.sent, t, source, steps)
           ELSE NotSent(n.sent)
      evs == <<Event("message", <<"res", res>>), Event("done", <<"run">>)>>
             \o (IF n.threw THEN <<Event("error", <<"e2">>)>> ELSE <<>>)
  IN  /\ runRes' = res
      /\ sent' = c.sent
      /\ RunFinally
      /\ Emit(t, evs, [task EXCEPT !.pc = "finished", !.outcome = "resolved",
                                   !.steps = steps, !.setRes = TRUE,
                                   !.resetFlag = ~running',
                                   !.threw = c.threw])

\* the catch block and finally of a run; evs are the events appended
\* before the exception
AfterRunFailed(t, task, outcome, evs, steps, source) ==
  LET c == NotifyCaught(sent, t, source, steps)
  IN  /\ sent' = c.sent
      /\ RunFinally
      /\ Emit(t, evs \o <<Event("error", <<outcome>>)>>,
              [task EXCEPT !.pc = "finished", !.outcome = outcome,
                           !.resetFlag = ~running', !.threw = c.threw])

\* runById: runWorkflow resolves
ByIdRunResolve(t, res) ==
  /\ unit = "run"
  /\ t \in TaskIds
  /\ tasks[t].op = "runById" /\ tasks[t].pc = "run"
  /\ AfterRunResolved(t, res, tasks[t].workflowId)
  /\ UNCHANGED <<unit, bridge, streaming, latest, abortRef, aborted,
                 seenStreaming, seenRunning, seenLatest, calls, lastCall,
                 received, pluginFunctionIds, parsed,
                 plugins, loading, error>>

\* runById: runWorkflow rejects
ByIdRunReject(t) ==
  /\ unit = "run"
  /\ t \in TaskIds
  /\ tasks[t].op = "runById" /\ tasks[t].pc = "run"
  /\ AfterRunFailed(t, tasks[t], "rejected", <<>>, tasks[t].steps, tasks[t].workflowId)
  /\ UNCHANGED <<unit, bridge, streaming, latest, runRes, abortRef, aborted,
                 seenStreaming, seenRunning, seenLatest, calls, lastCall,
                 received, pluginFunctionIds, parsed,
                 plugins, loading, error>>

\* runByDefinition(workflow), up to its first await (updateWorkflow)
RunByDefinition(workflow) ==
  /\ unit = "run"
  /\ CanCall
  /\ calls' = calls + 1
  /\ lastCall' = "runByDefinition"
  /\ RunGuard \/ CanAccept
  /\ IF RunGuard
       THEN UNCHANGED <<running, events, runRes, tasks>>
       ELSE LET evs == <<Event("message", <<"save", "start">>)>>
            IN  /\ runRes' = Null
                /\ running' = TRUE
                /\ events' = append(<<>>, evs)
                /\ tasks' = Append(tasks,
                     [NewTask("runByDefinition") EXCEPT
                        !.pc = "save",
                        !.sourceId = workflow.id,
                        !.workflowName = WorkflowName(workflow),
                        !.steps =
                           parseWorkflowSteps(getPluginFunctionIds(workflow)),
                        !.rpcs = << <<"updateWorkflow", workflow.id>> >>,
                        !.appended = Kinds(evs)])
  /\ UNCHANGED <<unit, bridge, streaming, latest, abortRef, aborted,
                 seenStreaming, seenRunning, seenLatest, sent, received,
                 pluginFunctionIds, parsed,
                 plugins, loading, error>>

\* runByDefinition: updateWorkflow resolves
DefSaveResolve(t, response) ==
  /\ unit = "run"
  /\ t \in TaskIds
  /\ tasks[t].op = "runByDefinition" /\ tasks[t].pc = "save"
  /\ IF SavedId(response) = ""
       THEN AfterRunFailed(t, Answered(t, response), "noId", <<>>,
                           tasks[t].steps, tasks[t].sourceId)
       ELSE LET saved == getPluginFunctionIds(response.workflow)
                fresh == IF Len(saved) > 0 THEN parseWorkflowSteps(saved)
                         ELSE tasks[t].steps
                steps == IF Len(fresh) > 0 THEN MarkStarted(fresh) ELSE fresh
                n == IF Len(fresh) > 0
                       THEN notifyWorkflowStart(sent, t, SavedId(response),
                                                tasks[t].workflowName, steps)
                       ELSE NotSent(sent)
                saveDone == <<Event("message",
                                    <<"save", "done", SavedId(response)>>)>>
            IN  IF n.threw
                  THEN AfterRunFailed(t, Answered(t, response), "threw",
                                      saveDone, steps, tasks[t].sourceId)
                  ELSE /\ sent' = n.sent
                       /\ running' = running
                       /\ Emit(t, saveDone
                                  \o <<Event("message", <<"run", "start">>)>>,
                               [Answered(t, response) EXCEPT
                                  !.pc = "run",
                                  !.workflowId = SavedId(response),
                                  !.workflowCodeId = SavedCodeId(response),
                                  !.steps = steps,
                                  !.rpcs = Append(@, <<"runWorkflow",
                                                       SavedId(response)>>)])
  /\ UNCHANGED <<unit, bridge, streaming, latest, runRes, abortRef, aborted,
                 seenStreaming, seenRunning, seenLatest, calls, lastCall,
                 received, pluginFunctionIds, parsed,
                 plugins, loading, error>>

\* runByDefinition: updateWorkflow rejects
DefSaveReject(t) ==
  /\ unit = "run"
  /\ t \in TaskIds
  /\ tasks[t].op = "runByDefinition" /\ tasks[t].pc = "save"
  /\ AfterRunFailed(t, tasks[t], "saveRejected", <<>>, tasks[t].steps,
                    tasks[t].sourceId)
  /\ UNCHANGED <<unit, bridge, streaming, latest, runRes, abortRef, aborted,
                 seenStreaming, seenRunning, seenLatest, calls, lastCall,
                 received, pluginFunctionIds, parsed,
                 plugins, loading, error>>

\* runByDefinition: runWorkflow resolves
DefRunResolve(t, res) ==
  /\ unit = "run"
  /\ t \in TaskIds
  /\ tasks[t].op = "runByDefinition" /\ tasks[t].pc = "run"
  /\ AfterRunResolved(t, res, tasks[t].sourceId)
  /\ UNCHANGED <<unit, bridge, streaming, latest, abortRef, aborted,
                 seenStreaming, seenRunning, seenLatest, calls, lastCall,
                 received, pluginFunctionIds, parsed,
                 plugins, loading, error>>

\* runByDefinition: runWorkflow rejects
DefRunReject(t) ==
  /\ unit = "run"
  /\ t \in TaskIds
  /\ tasks[t].op = "runByDefinition" /\ tasks[t].pc = "run"
  /\ AfterRunFailed(t, tasks[t], "rejected", <<>>, tasks[t].steps, tasks[t].sourceId)
  /\ UNCHANGED <<unit, bridge, streaming, latest, runRes, abortRef, aborted,
                 seenStreaming, seenRunning, seenLatest, calls, lastCall,
                 received, pluginFunctionIds, parsed,
                 plugins, loading, error>>

----------------------------------------------------------------------------
(* parseWorkflowSteps on its own *)

Chars == {".", "a"}

Parse ==
  /\ unit = "steps"
  /\ lastCall = "init"
  /\ lastCall' = "parse"
  /\ parsed' = parseWorkflowSteps(pluginFunctionIds)
  /\ UNCHANGED <<unit, bridge, streaming, running, events, latest, runRes,
                 abortRef, aborted, seenStreaming, seenRunning, seenLatest,
                 tasks, sent, calls, received, pluginFunctionIds,
                 plugins, loading, error>>

----------------------------------------------------------------------------
(* PluginsPanel and PluginsPage: the plugin list fetch *)

\* response.plugins of listPlugins
PluginLists == {<<>>, <<"p1">>, <<"p1", "p2">>}

\* t("plugins.fetchError")
FetchError == "plugins.fetchError"

\* what runs fetchPlugins: the effect (on mount and again whenever t changes,
\* with no cancellation of the fetch before) and, in PluginsPage, the refresh
\* button, which is disabled while loading
FetchTriggers == {"effect", "refresh"}

\* fetchPlugins up to its await: setLoading(true); setError(null);
\* clients.plugin.listPlugins({ pageSize: 100 })
FetchPlugins(trigger) ==
  /\ unit = "plugins"
  /\ CanCall
  /\ CanAccept
  /\ trigger = "refresh" => ~loading
  /\ loading' = TRUE
  /\ error' = Null
  /\ tasks' = Append(tasks, [NewTask("fetchPlugins") EXCEPT
                               !.pc = "listPlugins",
                               !.rpcs = <<<<"listPlugins", trigger>>>>])
  /\ calls' = calls + 1
  /\ lastCall' = "fetchPlugins"
  /\ UNCHANGED <<unit, bridge, streaming, running, events, latest, runRes,
                 abortRef, aborted, seenStreaming, seenRunning, seenLatest,
                 sent, received, pluginFunctionIds, parsed, plugins>>

\* the finally of fetchPlugins
FetchFinally == loading' = FALSE

\* listPlugins resolves: setPlugins(response.plugins), then the finally
ListPluginsResolve(t, response) ==
  /\ unit = "plugins"
  /\ t \in TaskIds
  /\ tasks[t].pc = "listPlugins"
  /\ plugins' = response
  /\ FetchFinally
  /\ tasks' = [tasks EXCEPT ![t] = [@ EXCEPT !.pc = "finished",
                                              !.outcome = "listed",
                                              !.listed = response,
                                              !.resetFlag = ~loading']]
  /\ UNCHANGED <<unit, bridge, streaming, running, events, latest, runRes,
                 abortRef, aborted, seenStreaming, seenRunning, seenLatest,
                 sent, calls, lastCall, received, pluginFunctionIds, parsed,
                 error>>

\* listPlugins rejects: the catch sets the error, then the finally
ListPluginsReject(t) ==
  /\ unit = "plugins"
  /\ t \in TaskIds
  /\ tasks[t].pc = "listPlugins"
  /\ error' = FetchError
  /\ FetchFinally
  /\ tasks' = [tasks EXCEPT ![t] = [@ EXCEPT !.pc = "finished",
                                              !.outcome = "listRejected",
                                              !.resetFlag = ~loading']]
  /\ UNCHANGED <<unit, bridge, streaming, running, events, latest, runRes,
                 abortRef, aborted, seenStreaming, seenRunning, seenLatest,
                 sent, calls, lastCall, received, pluginFunctionIds, parsed,
                 plugins>>

----------------------------------------------------------------------------
(* Specification *)

Init ==
  /\ unit \in Units
  /\ bridge \in (IF unit = "run" THEN Bridges ELSE {"absent"})
  /\ pluginFunctionIds \in
       (IF unit = "steps" THEN SeqUpTo(SeqUpTo(Chars, MaxIdLen), MaxIds)
        ELSE {<<>>})
  /\ parsed = <<>>
  /\ streaming = FALSE
  /\ running = FALSE
  /\ events = <<>>
  /\ latest = Null
  /\ runRes = Null
  /\ abortRef = 0
  /\ aborted = {}
  /\ seenStreaming = FALSE
  /\ seenRunning = FALSE
  /\ seenLatest = Null
  /\ tasks = <<>>
  /\ sent = <<>>
  /\ calls = 0
  /\ lastCall = "init"
  /\ received = <<>>
  /\ plugins = <<>>
  /\ loading = TRUE
  /\ error = Null

\* the steps of the mounted hook
HookNext ==
  \/ \E prompt \in Prompts : Start(prompt)
  \/ \E t \in TaskIds, msg \in Messages : StreamMessage(t, msg)
  \/ \E t \in TaskIds : StreamDone(t)
  \/ \E t \in TaskIds : StreamError(t)
  \/ \E t \in TaskIds : StreamAbort(t)
  \/ Stop
  \/ ClearEvents
  \/ Render
  \/ RunLatest
  \/ \E t \in TaskIds, response \in SaveResponses : LatestSaveResolve(t, response)
  \/ \E t \in TaskIds : LatestSaveReject(t)
  \/ \E t \in TaskIds, res \in Responses : LatestRunResolve(t, res)
  \/ \E t \in TaskIds : LatestRunReject(t)
  \/ \E workflowId \in WorkflowIds, workflowCodeId \in {Undefined},
        workflow \in RunByIdWorkflows :
          RunById(workflowId, workflowCodeId, workflow)
  \/ \E t \in TaskIds, res \in Responses : ByIdRunResolve(t, res)
  \/ \E t \in TaskIds : ByIdRunReject(t)
  \/ \E workflow \in DefinitionWorkflows : RunByDefinition(workflow)
  \/ \E t \in TaskIds, response \in SaveResponses : DefSaveResolve(t, response)
  \/ \E t \in TaskIds : DefSaveReject(t)
  \/ \E t \in TaskIds, res \in Responses : DefRunResolve(t, res)
  \/ \E t \in TaskIds : DefRunReject(t)
  \/ \E trigger \in FetchTriggers : FetchPlugins(trigger)
  \/ \E t \in TaskIds, response \in PluginLists : ListPluginsResolve(t, response)
  \/ \E t \in TaskIds : ListPluginsReject(t)

Next == HookNext \/ Parse

Spec == Init /\ [][Next]_vars

\* every backend call or stream eventually resolves, rejects or is aborted
Settle(t) ==
  \/ StreamDone(t) \/ StreamError(t) \/ StreamAbort(t)
  \/ (\E response \in SaveResponses : LatestSaveResolve(t, response))
  \/ LatestSaveReject(t)
  \/ (\E res \in Responses : LatestRunResolve(t, res))
  \/ LatestRunReject(t)
  \/ (\E res \in Responses : ByIdRunResolve(t, res))
  \/ ByIdRunReject(t)
  \/ (\E response \in SaveResponses : DefSaveResolve(t, response))
  \/ DefSaveReject(t)
  \/ (\E res \in Responses : DefRunResolve(t, res))
  \/ DefRunReject(t)
  \/ (\E response \in PluginLists : ListPluginsResolve(t, response))
  \/ ListPluginsReject(t)

\* the hooks alone (parseWorkflowSteps awaits nothing); the host bridge is
\* absent or rejects, which sends what a resolving one is sent
LiveInit == Init /\ unit # "steps" /\ bridge # "resolves"

LiveSpec ==
  LiveInit /\ [][HookNext]_vars /\ \A t \in 1..MaxTasks : WF_vars(Settle(t))

----------------------------------------------------------------------------
(* Properties *)

Streams == {t \in TaskIds : tasks[t].op = "start" /\ InFlight(t)}
Runs ==
  {t \in TaskIds : tasks[t].op \in {"runById", "runByDefinition"} /\ InFlight(t)}
Finished(t) == t \in TaskIds /\ ~InFlight(t)
Count(seq, x) == Cardinality({i \in 1..Len(seq) : seq[i] = x})
IsCall(name) == calls' = calls + 1 /\ lastCall' = name

\* C1: at most one generateWorkflow stream started by the hook is in flight
\* at any time; a start() issued while one is in flight starts no second one.
C1_AtMostOneStream == Cardinality(Streams) <= 1

\* C2: whenever a generateWorkflow stream is in flight, the abort controller
\* the hook holds is that stream's, so that stop() aborts it.
C2_StopAbortsInFlightStream == \A t \in Streams : abortRef = t

\* the events a run appends, by its outcome alone
ExpectedKinds(op, outcome) ==
  CASE op = "runById" /\ outcome = "resolved" -> <<"message", "message", "done">>
    [] op = "runById" /\ outcome = "rejected" -> <<"message", "error">>
    [] op = "runByDefinition" /\ outcome \in {"noId", "saveRejected"} ->
         <<"message", "error">>
    [] op = "runByDefinition" /\ outcome = "rejected" ->
         <<"message", "message", "message", "error">>
    [] op = "runByDefinition" /\ outcome = "resolved" ->
         <<"message", "message", "message", "message", "done">>
    [] OTHER -> <<"unexpected">>

\* C3: with window.OSAutomotor absent no message is sent, and whatever the
\* host bridge does (absent, resolving, rejecting) a finished runById or
\* runByDefinition has thrown nothing, has appended exactly the events its
\* backend outcome calls for, has set runRes only if runWorkflow resolved,
\* and has set running to false.
C3_NotifierFailsSilently ==
  /\ bridge = "absent" => sent = <<>>
  /\ \A t \in TaskIds :
       tasks[t].op \in {"runById", "runByDefinition"} /\ Finished(t) =>
         /\ ~tasks[t].threw
         /\ tasks[t].appended = ExpectedKinds(tasks[t].op, tasks[t].outcome)
         /\ tasks[t].setRes = (tasks[t].outcome = "resolved")
         /\ tasks[t].resetFlag

C3_Witness ==
  \E t \in TaskIds :
    /\ Finished(t) /\ tasks[t].op = "runByDefinition"
    /\ tasks[t].outcome = "resolved" /\ Len(tasks[t].steps) > 0
    /\ bridge = "rejects" /\ Len(sent) = 2

\* C4: an operation whose backend call rejected (updateWorkflow, runWorkflow)
\* or whose stream failed with a non-abort error has appended exactly one
\* error event and no done event, has not set runRes, and has thrown nothing.
C4_FailureBecomesOneErrorEvent ==
  \A t \in TaskIds :
    Finished(t) /\ tasks[t].outcome \in {"rejected", "saveRejected", "failed"} =>
      /\ Count(tasks[t].appended, "error") = 1
      /\ Count(tasks[t].appended, "done") = 0
      /\ ~tasks[t].setRes
      /\ ~tasks[t].threw

C4_Witness ==
  \E t \in TaskIds :
    /\ Finished(t) /\ tasks[t].op = "start" /\ tasks[t].outcome = "failed"
    /\ tasks[t].nmsg > 0
    /\ events # <<>> /\ events[Len(events)].kind = "error"

\* C5: in runByDefinition and runLatest, runWorkflow is issued only after
\* updateWorkflow returned a workflow with a non-empty id, and with exactly
\* that id; when updateWorkflow rejects or returns no id, runWorkflow is never
\* issued and an error event is appended.
C5_SaveThenRunById ==
  \A t \in TaskIds :
    tasks[t].op \in {"runByDefinition", "runLatest"} =>
      LET issued == {i \in 1..Len(tasks[t].rpcs) :
                       tasks[t].rpcs[i][1] = "runWorkflow"}
          answer == tasks[t].saveResponse.workflow
          noId == ~answer.defined \/ answer.id = ""
      IN  /\ tasks[t].rpcs[1][1] = "updateWorkflow"
          /\ \A i \in issued :
               /\ i = 2 /\ tasks[t].saved /\ ~noId
               /\ tasks[t].rpcs[i][2] = answer.id
          /\ tasks[t].outcome = "saveRejected" \/ (tasks[t].saved /\ noId) =>
               /\ issued = {}
               /\ Finished(t)
               /\ Count(tasks[t].appended, "error") = 1

C5_Witness ==
  \E t \in TaskIds :
    /\ tasks[t].op = "runByDefinition" /\ tasks[t].pc = "run"
    /\ tasks[t].rpcs = << <<"updateWorkflow", "w2">>, <<"runWorkflow", "w3">> >>

\* C6: running is true exactly when a run accepted by runById or
\* runByDefinition has not yet finished.
C6_RunningIffRunInFlight == unit = "run" => (running <=> Runs # {})

\* C7: given that every backend call or stream eventually settles, every
\* accepted start() sets streaming back to false and every accepted runById or
\* runByDefinition sets running back to false, whatever its outcome, and
\* neither flag stays true forever: once the (bounded) calls of a behaviour
\* are made, every accepted call has finished and reset its flag, and both
\* flags are false for good.
C7_FlagEventuallyReset ==
  <>[](/\ ~streaming
       /\ ~running
       /\ \A t \in TaskIds :
            /\ Finished(t)
            /\ tasks[t].op \in {"start", "runById", "runByDefinition"} =>
                 tasks[t].resetFlag)

C7_Witness ==
  \E t \in TaskIds :
    /\ Finished(t) /\ tasks[t].outcome = "aborted" /\ tasks[t].resetFlag
    /\ ~streaming

\* C8: latest is null if no message has been received since the most recent
\* accepted start(), and otherwise is the most recently received message of
\* the generateWorkflow stream; stop(), clearEvents() and runLatest() never
\* change it.
C8_LatestIsLastReceived ==
  /\ [](latest = IF received = <<>> THEN Null ELSE received[Len(received)])
  /\ [][IsCall("stop") \/ IsCall("clearEvents") \/ IsCall("runLatest")
          => latest' = latest]_vars

C8_Witness ==
  /\ Len(received) = 2 /\ received[1] # received[2]
  /\ latest = received[2]

\* C9: clearEvents() empties events and changes neither running, streaming,
\* latest, runRes nor any run or stream in flight; what is appended afterwards
\* goes to the end of the emptied list, in the order it is appended.
C9_ClearEventsFrame ==
  /\ [][IsCall("clearEvents") =>
          /\ events' = <<>>
          /\ UNCHANGED <<running, streaming, latest, runRes, tasks, aborted,
                         abortRef>>]_vars
  /\ [][\A t \in TaskIds :
          tasks'[t] # tasks[t] =>
            /\ Len(tasks'[t].appended) >= Len(tasks[t].appended)
            /\ Kinds(events') =
                 Kinds(events)
                   \o SubSeq(tasks'[t].appended, Len(tasks[t].appended) + 1,
                             Len(tasks'[t].appended))]_vars

C9_Witness ==
  /\ lastCall = "clearEvents"
  /\ Len(events) = 2
  /\ \E t \in TaskIds : Finished(t) /\ tasks[t].outcome = "resolved"

\* the text after the last "." of s, or s when there is no "." or no text
\* after it
AfterLastDot(s) ==
  LET dots == {i \in 1..Len(s) : s[i] = "."}
      last == CHOOSE i \in dots : \A j \in dots : j <= i
  IN  IF dots = {} \/ last = Len(s) THEN s ELSE SubSeq(s, last + 1, Len(s))

\* C10: parseWorkflowSteps(ids) has the length and order of ids; step i
\* (from 0) has id "step-i", functionId ids[i], status "pending", no
\* startedAt or completedAt, and as functionName the text after the last "."
\* of ids[i], or ids[i] when that is empty or there is no "."; step ids are
\* pairwise distinct.
C10_ParseWorkflowSteps ==
  lastCall = "parse" =>
    /\ Len(parsed) = Len(pluginFunctionIds)
    /\ \A i \in 1..Len(parsed) :
         /\ parsed[i].id = <<"step", i - 1>>
         /\ parsed[i].functionId = pluginFunctionIds[i]
         /\ parsed[i].status = "pending"
         /\ parsed[i].startedAt = Undefined
         /\ parsed[i].completedAt = Undefined
         /\ parsed[i].functionName = AfterLastDot(pluginFunctionIds[i])
    /\ \A i, j \in 1..Len(parsed) : i # j => parsed[i].id # parsed[j].id

C10_Witness ==
  /\ lastCall = "parse"
  /\ Len(parsed) = 2
  /\ parsed[1].functionId = <<"a", ".", "a">>
  /\ parsed[1].functionName = <<"a">>
  /\ parsed[2].functionId = <<"a", ".">>
  /\ parsed[2].functionName = <<"a", ".">>

\* C11: when listPlugins rejects, error becomes non-null, loading becomes
\* false and the plugins list is left as it was; when a fetch starts, error
\* is reset to null; when listPlugins resolves, plugins becomes the response
\* and error is null.
C11_PluginFetchContract ==
  [][/\ \A t \in TaskIds :
          tasks[t].op = "fetchPlugins" /\ tasks[t].outcome = "pending" =>
            /\ tasks'[t].outcome = "listRejected" =>
                 error' # Null /\ ~loading' /\ plugins' = plugins
            /\ tasks'[t].outcome = "listed" =>
                 plugins' = tasks'[t].listed /\ error' = Null
     /\ IsCall("fetchPlugins") => error' = Null]_vars

\* C12: at most one run of useWorkflowRun is in flight at any time, and a
\* runById or runByDefinition call made while a run is in flight issues no
\* updateWorkflow or runWorkflow call (it starts no task).
C12_AtMostOneRunInFlight ==
  /\ Cardinality(Runs) <= 1
  /\ \A t \in Runs : \A u \in TaskIds :
       u > t /\ tasks[u].op \in {"runById", "runByDefinition"} => Finished(t)

\* the positions in the messages handed to the host of the notifications of
\* one type of one run
SentOf(run, type) ==
  {i \in 1..Len(sent) : sent[i].run = run /\ sent[i].type = type}

Terminal == {"workflow-progress-complete", "workflow-progress-error"}

\* C13: a complete or error notification is sent only after a start
\* notification of the same run has been sent.
C13_TerminalOnlyAfterStart ==
  \A i \in 1..Len(sent) :
    sent[i].type \in Terminal =>
      \E j \in SentOf(sent[i].run, "workflow-progress-start") : j < i

\* the notifications of a run that follow its first start notification
AfterStart(run) ==
  LET starts == SentOf(run, "workflow-progress-start")
      first == CHOOSE i \in starts : \A j \in starts : i <= j
      OfRun(m) == m.run = run
      later == SelectSeq(SubSeq(sent, first + 1, Len(sent)), OfRun)
  IN  [k \in 1..Len(later) |-> later[k].type]

\* what follows the start of a run so far: nothing while runWorkflow is
\* pending, and then the one terminal notification its outcome calls for
FollowsStart(run) ==
  CASE tasks[run].outcome = "pending" /\ tasks[run].pc = "run" -> <<>>
    [] tasks[run].outcome = "resolved" -> <<"workflow-progress-complete">>
    [] tasks[run].outcome = "rejected" -> <<"workflow-progress-error">>
    [] OTHER -> <<"none">>

Started == {t \in TaskIds : SentOf(t, "workflow-progress-start") # {}}

\* C14: every start notification of a run is eventually followed by exactly
\* one terminal notification of that run, complete if runWorkflow resolved
\* and error if it rejected, with no update and no second start in between
\* (nor after).
C14_StartThenOneTerminal ==
  /\ [](\A t \in Started : AfterStart(t) = FollowsStart(t))
  /\ <>[](\A t \in Started : Finished(t) /\ Len(AfterStart(t)) = 1)

C14_Witness ==
  \E t, u \in Started :
    /\ AfterStart(t) = <<"workflow-progress-complete">>
    /\ AfterStart(u) = <<"workflow-progress-error">>

\* the workflow id a run passed to runWorkflow
RunWorkflowIds(t) ==
  {tasks[t].rpcs[i][2] : i \in {j \in 1..Len(tasks[t].rpcs) :
                                  tasks[t].rpcs[j][1] = "runWorkflow"}}

\* C15: all progress notifications of one run carry the same workflowId, the
\* id that run passed to runWorkflow; the error notification of
\* runByDefinition carries the workflowId of its start notification.
C15_OneWorkflowIdPerRun ==
  \A i \in 1..Len(sent) :
    /\ \A j \in 1..Len(sent) :
         sent[i].run = sent[j].run => sent[i].workflowId = sent[j].workflowId
    /\ RunWorkflowIds(sent[i].run) \subseteq {sent[i].workflowId}

FunctionIds(steps) == [i \in 1..Len(steps) |-> steps[i].functionId]

\* C16: every start notification has currentStepIndex 0 and status
\* "running", its first step "running" and every other step "pending"; every
\* complete notification has status "completed", every step "completed" and
\* currentStepIndex = number of steps - 1; the start and the complete
\* notification of a run list the same functionIds, in the same number.
C16_StartAndCompleteShape ==
  \A i \in 1..Len(sent) :
    LET m == sent[i]
    IN  /\ m.type = "workflow-progress-start" =>
             /\ m.currentStepIndex = 0 /\ m.status = "running"
             /\ Len(m.steps) > 0
             /\ \A k \in 1..Len(m.steps) :
                  m.steps[k].status = IF k = 1 THEN "running" ELSE "pending"
        /\ m.type = "workflow-progress-complete" =>
             /\ m.status = "completed"
             /\ m.currentStepIndex = Len(m.steps) - 1
             /\ \A k \in 1..Len(m.steps) : m.steps[k].status = "completed"
             /\ \A j \in SentOf(m.run, "workflow-progress-start") :
                  FunctionIds(sent[j].steps) = FunctionIds(m.steps)

C16_Witness ==
  \E i, j \in 1..Len(sent) :
    /\ sent[i].type = "workflow-progress-start"
    /\ sent[j].type = "workflow-progress-complete"
    /\ sent[i].run = sent[j].run
    /\ Len(sent[i].steps) = 2

====
